---- MODULE Spec2Model ----
(***************************************************************************)
(* Model of verify.js: e-mail candidate generation, MX resolution, the     *)
(* SMTP recipient probe (verifySMTP), the NeverBounce validator and the    *)
(* resumable batch (processInputCSV).                                      *)
(*                                                                         *)
(* JavaScript strings are modelled as sequences of one-character strings,  *)
(* so that split, trim, startsWith and toLowerCase are computed, not       *)
(* assumed.                                                                *)
(***************************************************************************)
EXTENDS Integers, Sequences, FiniteSets, TLC

VARIABLES
    \* ---- one call of verifySMTP (specification SpecProbe) ----
    email,        \* the address being probed
    mxHosts,      \* the host list the call was given
    socks,        \* one session per host contacted so far, in order
    vpc,          \* "idle" | "awaiting" | "returned"
    ret,          \* the value verifySMTP returned
    nData,        \* number of 'data' events delivered during the call
    \* ---- one batch, processInputCSV (specification Spec) ----
    entries,      \* rows read from the input CSV
    file,         \* content of progress.json on disk
    progress,     \* the in-memory progress array
    processedSet, \* Set of "domain||name" keys
    verified,     \* the in-memory verified array
    pc,           \* position of processInputCSV
    idx,          \* index of the current entry
    cur,          \* per-entry locals: candidates, mxHosts, catchAll, cidx, found
                  \* (and dns, what the resolver answered; nbCaught, whether
                  \* the entry's last verifyNeverBounce call ended in its catch)
    log,          \* calls made for the current entry, in order
    run,          \* number of the current process run (also the clock)
    hist,         \* history: loaded = records loaded at this start, durable =
                  \* keys loaded at this start or written since, prev = how
                  \* the previous run ended
    \* ---- one call of a pure function (specification SpecFn) ----
    fnIn,         \* the function called and its arguments
    fnOut         \* what it returned

probeVars == <<email, mxHosts, socks, vpc, ret, nData>>
batchVars == <<entries, file, progress, processedSet, verified, pc, idx, cur,
               log, run, hist>>
fnVars == <<fnIn, fnOut>>
vars == <<email, mxHosts, socks, vpc, ret, nData, entries, file, progress,
          processedSet, verified, pc, idx, cur, log, run, hist, fnIn, fnOut>>

-----------------------------------------------------------------------------
(* Bounds of the model *)

MaxHosts == 2      \* longest MX list
MaxData == 4       \* 'data' events delivered during one verifySMTP call
MaxEntries == 2    \* rows of the input CSV
MaxFileRecords == 1 \* items of the JSON array found in progress.json at first
MaxRuns == 2       \* process starts (first run and resumed runs)
MaxNameLen == 5    \* characters of a fullName given to generateEmailCandidates

-----------------------------------------------------------------------------
(* String helpers: the JavaScript String methods the program uses *)

CRLF == <<"\r", "\n">>

IsSpace(c) == c \in {" ", "\t"}

\* String.prototype.startsWith
StartsWith(s, p) == Len(s) >= Len(p) /\ SubSeq(s, 1, Len(p)) = p

\* String.prototype.includes for a one-character needle
Includes(s, c) == \E i \in 1..Len(s) : s[i] = c

\* toLowerCase of one character, over the letters the model uses
LowerChar(c) ==
    CASE c = "A" -> "a" [] c = "B" -> "b" [] c = "C" -> "c"
      [] c = "X" -> "x" [] OTHER -> c

\* String.prototype.toLowerCase
ToLowerCase(s) == [i \in 1..Len(s) |-> LowerChar(s[i])]

\* String.prototype.split('\r\n'): n separators give n + 1 pieces
RECURSIVE SplitCRLF(_)
SplitCRLF(s) ==
    IF \E i \in 1..(Len(s) - 1) : s[i] = "\r" /\ s[i + 1] = "\n"
    THEN LET i == CHOOSE j \in 1..(Len(s) - 1) :
                      /\ s[j] = "\r" /\ s[j + 1] = "\n"
                      /\ \A k \in 1..(j - 1) : ~(s[k] = "\r" /\ s[k + 1] = "\n")
         IN  <<SubSeq(s, 1, i - 1)>> \o SplitCRLF(SubSeq(s, i + 2, Len(s)))
    ELSE <<s>>

\* String.prototype.trim
RECURSIVE Trim(_)
Trim(s) ==
    IF s # <<>> /\ IsSpace(s[1]) THEN Trim(Tail(s))
    ELSE IF s # <<>> /\ IsSpace(s[Len(s)]) THEN Trim(SubSeq(s, 1, Len(s) - 1))
    ELSE s

\* String.prototype.split(/\s+/): a run of whitespace is one separator
RECURSIVE SplitWs(_)
SplitWs(s) ==
    IF \E i \in 1..Len(s) : IsSpace(s[i])
    THEN LET i == CHOOSE j \in 1..Len(s) :
                      IsSpace(s[j]) /\ \A k \in 1..(j - 1) : ~IsSpace(s[k])
             RECURSIVE SkipWs(_)
             SkipWs(j) == IF j <= Len(s) /\ IsSpace(s[j]) THEN SkipWs(j + 1) ELSE j
         IN  <<SubSeq(s, 1, i - 1)>> \o SplitWs(SubSeq(s, SkipWs(i), Len(s)))
    ELSE <<s>>

\* [...new Set(list)]: first occurrences, in insertion order
RECURSIVE Dedup(_)
Dedup(list) ==
    IF list = <<>> THEN <<>>
    ELSE LET init == Dedup(SubSeq(list, 1, Len(list) - 1))
             last == list[Len(list)]
         IN  IF \E i \in 1..Len(init) : init[i] = last THEN init
             ELSE Append(init, last)

-----------------------------------------------------------------------------
(* generateEmailCandidates *)

generateEmailCandidates(fullName, domain) ==
    LET base == ToLowerCase(domain)
        at(local) == local \o <<"@">> \o base
        candidates ==
            IF Includes(fullName, " ")
            THEN LET toks == SplitWs(Trim(fullName))
                     first == toks[1]
                     rest == Tail(toks)
                 IN  \* rest[rest.length - 1] is undefined for an empty rest
                     IF first # <<>> /\ rest # <<>> /\ rest[Len(rest)] # <<>>
                     THEN LET last == rest[Len(rest)]
                          IN  << at(first),
                                 at(first \o <<".">> \o last),
                                 at(<<first[1]>> \o last),
                                 at(first \o <<last[1]>>),
                                 at(first \o last),
                                 at(last) >>
                     ELSE <<>>
            ELSE << at(ToLowerCase(fullName)) >>
    IN  Dedup([i \in 1..Len(candidates) |-> ToLowerCase(candidates[i])])

-----------------------------------------------------------------------------
(* verifySMTP: one session per host *)

\* A JavaScript string built from a fixed text and a value
Info(text, arg) == [text |-> text, arg |-> arg]

Result(e, success, info) == [email |-> e, success |-> success, info |-> info]

\* A promise not yet resolved; resolve() on a settled promise does nothing
Pending == [settled |-> FALSE, value |-> Result(<<>>, FALSE, Info("", <<>>))]

Resolve(promise, r) ==
    IF promise.settled THEN promise ELSE [settled |-> TRUE, value |-> r]

\* net.createConnection and the locals of the promise executor.
\* written: what socket.write was given, each with the number of characters
\* received from the server when it was written; verdictAt: where in the buffer
\* the line that decided the verdict starts (history, -1 before the verdict);
\* settledBy: the event whose handler settled the promise (history).
NewSocket ==
    [conn |-> "open", stage |-> 0, buffer |-> <<>>, resolved |-> FALSE,
     written |-> <<>>, promise |-> Pending, verdictAt |-> -1, settledBy |-> ""]

Write(s, verb, arg) ==
    [s EXCEPT !.written = Append(@, [verb |-> verb, arg |-> arg,
                                      at |-> Len(s.buffer)])]

\* Mutant of OnLine: the stage is left at 3 after the verdict
OnLineStaysAt3(s, e, host, line, off) ==
    IF line = <<>> THEN s
    ELSE IF s.stage = 0 /\ StartsWith(line, <<"2", "2", "0">>)
    THEN [Write(s, "EHLO", <<>>) EXCEPT !.stage = 1]
    ELSE IF s.stage = 1 /\ StartsWith(line, <<"2", "5", "0">>)
    THEN [Write(s, "MAIL FROM", <<>>) EXCEPT !.stage = 2]
    ELSE IF s.stage = 2 /\ StartsWith(line, <<"2", "5", "0">>)
    THEN [Write(s, "RCPT TO", e) EXCEPT !.stage = 3]
    ELSE IF s.stage = 3
    THEN [Write(s, "QUIT", <<>>) EXCEPT
             !.promise = Resolve(@,
                 IF StartsWith(line, <<"2", "5", "0">>)
                 THEN Result(e, TRUE, Info("SMTP accepted: ", host))
                 ELSE Result(e, FALSE, Info("SMTP rejected: ", line))),
             !.verdictAt = off]
    ELSE s

\* the body of the for loop over lines, for one line starting at offset off
OnLine(s, e, host, line, off) ==
    IF line = <<>> THEN s
    ELSE IF s.stage = 0 /\ StartsWith(line, <<"2", "2", "0">>)
    THEN [Write(s, "EHLO", <<>>) EXCEPT !.stage = 1]
    ELSE IF s.stage = 1 /\ StartsWith(line, <<"2", "5", "0">>)
    THEN [Write(s, "MAIL FROM", <<>>) EXCEPT !.stage = 2]
    ELSE IF s.stage = 2 /\ StartsWith(line, <<"2", "5", "0">>)
    THEN [Write(s, "RCPT TO", e) EXCEPT !.stage = 3]
    ELSE IF s.stage = 3
    THEN [Write(s, "QUIT", <<>>) EXCEPT
             !.promise = Resolve(@,
                 IF StartsWith(line, <<"2", "5", "0">>)
                 THEN Result(e, TRUE, Info("SMTP accepted: ", host))
                 ELSE Result(e, FALSE, Info("SMTP rejected: ", line))),
             !.verdictAt = off,
             !.stage = 4]
    ELSE s

RECURSIVE ScanLines(_, _, _, _, _, _)
ScanLines(s, e, host, lines, k, off) ==
    IF k > Len(lines) THEN s
    ELSE ScanLines(OnLine(s, e, host, lines[k], off), e, host, lines, k + 1,
                   off + Len(lines[k]) + 2)

\* socket.on('data'): the buffer keeps everything received so far and is
\* split and scanned from its start on every event
OnData(s, e, host, data) ==
    LET grown == [s EXCEPT !.buffer = @ \o data]
    IN  ScanLines(grown, e, host, SplitCRLF(grown.buffer), 1, 0)

\* cleanup(): the timeout callback and the 'close' handler
Cleanup(s, e) ==
    IF ~s.resolved
    THEN [s EXCEPT !.resolved = TRUE,
                   !.conn = "closed",
                   !.promise = Resolve(@, Result(e, FALSE, Info("SMTP closed", <<>>)))]
    ELSE [s EXCEPT !.conn = "closed"]

\* socket.on('error'); the socket emits 'close' next
OnError(s, e) ==
    [s EXCEPT !.conn = "errored",
              !.promise = Resolve(@, Result(e, FALSE, Info("SMTP error", <<>>)))]

\* The continuation of `await new Promise(...)` in the host loop, run when the
\* current host's promise settles: return on success, else the next host.
\* state is [socks, vpc, ret].
HostLoop(e, hosts, state) ==
    LET last == state.socks[Len(state.socks)]
    IN  IF state.vpc # "awaiting" \/ ~last.promise.settled THEN state
        ELSE IF last.promise.value.success
        THEN [state EXCEPT !.vpc = "returned", !.ret = last.promise.value]
        ELSE IF Len(state.socks) < Len(hosts)
        THEN [state EXCEPT !.socks = Append(@, NewSocket)]
        ELSE [state EXCEPT !.vpc = "returned",
                           !.ret = Result(e, FALSE, Info("All MX failed", <<>>))]

\* verifySMTP up to its first await
CallVerifySMTP(e, hosts) ==
    IF Len(hosts) = 0
    THEN [socks |-> <<>>, vpc |-> "returned",
          ret |-> Result(e, FALSE, Info("No MX", <<>>))]
    ELSE [socks |-> <<NewSocket>>, vpc |-> "awaiting",
          ret |-> Result(<<>>, FALSE, Info("", <<>>))]

\* One socket event of the call: ev is [type, sock, data]
OnEvent(e, hosts, state, ev) ==
    LET s == state.socks[ev.sock]
        host == hosts[ev.sock]
        s1 == CASE ev.type = "data" -> OnData(s, e, host, ev.data)
                [] ev.type = "timeout" -> Cleanup(s, e)
                [] ev.type = "close" -> Cleanup(s, e)
                [] ev.type = "error" -> OnError(s, e)
        s2 == IF s1.promise.settled /\ ~s.promise.settled
              THEN [s1 EXCEPT !.settledBy = ev.type] ELSE s1
    IN  HostLoop(e, hosts, [state EXCEPT !.socks[ev.sock] = s2])

\* An event can be delivered to a socket that is open; 'close' follows 'error'
CanDeliver(state, ev) ==
    /\ ev.sock \in 1..Len(state.socks)
    /\ IF ev.type = "close"
       THEN state.socks[ev.sock].conn \in {"open", "errored"}
       ELSE state.socks[ev.sock].conn = "open"

-----------------------------------------------------------------------------
(* The environment of a probe: what a mail exchanger can send *)

Hosts == {<<"mx1">>, <<"mx2">>}

RECURSIVE SeqsUpTo(_, _)
SeqsUpTo(S, n) ==
    IF n = 0 THEN {<<>>}
    ELSE LET shorter == SeqsUpTo(S, n - 1)
         IN  shorter \cup {Append(q, x) : q \in shorter, x \in S}

HostLists == SeqsUpTo(Hosts, MaxHosts)

L220 == <<"2", "2", "0">> \o CRLF
L250 == <<"2", "5", "0">> \o CRLF
L550 == <<"5", "5", "0">> \o CRLF

\* TCP segments: single reply lines, a two-line EHLO reply, and a reply line
\* cut in two by the network
Chunks ==
    { L220, L250, L550,
      <<"2", "5", "0", "-">> \o CRLF \o L250,
      <<"2", "5">>,
      <<"0">> \o CRLF }

ProbeEmails == { <<"a", "@", "x">> }

NoResult == Result(<<>>, FALSE, Info("", <<>>))

NoCur == [fullName |-> <<>>, domain |-> <<>>, candidates |-> <<>>,
          dns |-> [ok |-> FALSE, records |-> <<>>],
          mxHosts |-> <<>>, catchAll |-> FALSE, cidx |-> 0, found |-> FALSE,
          nbCaught |-> FALSE]

NoHist == [loaded |-> 0, durable |-> {}, prev |-> "none"]

BatchOff ==
    /\ entries = <<>>
    /\ file = [kind |-> "missing"]
    /\ progress = <<>>
    /\ processedSet = {}
    /\ verified = <<>>
    /\ pc = "off"
    /\ idx = 0
    /\ cur = NoCur
    /\ log = <<>>
    /\ run = 0
    /\ hist = NoHist

ProbeOff ==
    /\ email = <<>>
    /\ mxHosts = <<>>
    /\ socks = <<>>
    /\ vpc = "off"
    /\ ret = NoResult
    /\ nData = 0

NoCall == [fn |-> "none"]

NoOut == [done |-> FALSE]

FnOff ==
    /\ fnIn = NoCall
    /\ fnOut = NoOut

InitProbe ==
    /\ email \in ProbeEmails
    /\ mxHosts \in HostLists
    /\ socks = <<>>
    /\ vpc = "idle"
    /\ ret = NoResult
    /\ nData = 0
    /\ BatchOff
    /\ FnOff

ProbeState == [socks |-> socks, vpc |-> vpc, ret |-> ret]

SetProbeState(st) ==
    /\ socks' = st.socks
    /\ vpc' = st.vpc
    /\ ret' = st.ret

\* verifySMTP(email, mxHosts) is called
Call ==
    /\ vpc = "idle"
    /\ SetProbeState(CallVerifySMTP(email, mxHosts))
    /\ UNCHANGED <<email, mxHosts, nData>>
    /\ UNCHANGED <<batchVars, fnVars>>

Deliver(ev) ==
    /\ vpc \in {"awaiting", "returned"}
    /\ CanDeliver(ProbeState, ev)
    /\ SetProbeState(OnEvent(email, mxHosts, ProbeState, ev))
    /\ UNCHANGED <<email, mxHosts>>
    /\ UNCHANGED <<batchVars, fnVars>>

\* a 'data' event on a socket
Data ==
    /\ nData < MaxData
    /\ \E i \in 1..Len(socks), d \in Chunks :
           Deliver([type |-> "data", sock |-> i, data |-> d])
    /\ nData' = nData + 1

\* the idle timeout of a socket fires
Timeout ==
    /\ \E i \in 1..Len(socks) :
           Deliver([type |-> "timeout", sock |-> i, data |-> <<>>])
    /\ UNCHANGED nData

\* a socket reports an error
Error ==
    /\ \E i \in 1..Len(socks) :
           Deliver([type |-> "error", sock |-> i, data |-> <<>>])
    /\ UNCHANGED nData

\* a socket is closed by the peer, or after an error
Close ==
    /\ \E i \in 1..Len(socks) :
           Deliver([type |-> "close", sock |-> i, data |-> <<>>])
    /\ UNCHANGED nData

NextProbe == Call \/ Data \/ Timeout \/ Error \/ Close

SpecProbe == InitProbe /\ [][NextProbe]_vars

-----------------------------------------------------------------------------
(* verifySMTP as one call: the events of each host's session, in order *)

\* The events one host produces, as far as they are delivered
Ev(type, data) == [type |-> type, data |-> data]

RECURSIVE RunHost(_, _, _, _, _)
RunHost(e, hosts, state, h, evs) ==
    IF state.vpc = "returned" \/ Len(state.socks) # h THEN state
    ELSE IF evs = <<>>
    THEN \* nothing more arrives: socket.setTimeout(RESPONSE_TIMEOUT, cleanup)
         OnEvent(e, hosts, state, [type |-> "timeout", sock |-> h, data |-> <<>>])
    ELSE RunHost(e, hosts,
                 OnEvent(e, hosts, state,
                         [type |-> Head(evs).type, sock |-> h, data |-> Head(evs).data]),
                 h, Tail(evs))

RECURSIVE RunHosts(_, _, _, _)
RunHosts(e, hosts, state, scripts) ==
    IF state.vpc = "returned" THEN state
    ELSE RunHosts(e, hosts,
                  RunHost(e, hosts, state, Len(state.socks), scripts[Len(state.socks)]),
                  scripts)

\* verifySMTP(email, mxHosts) against hosts that behave as scripts says:
\* [result, connections]
verifySMTP(e, hosts, scripts) ==
    LET final == RunHosts(e, hosts, CallVerifySMTP(e, hosts), scripts)
    IN  [result |-> final.ret, connections |-> Len(final.socks)]

\* What a host does during one session
HostScripts ==
    { << Ev("data", L220), Ev("data", L250), Ev("data", L250), Ev("data", L250) >>,
      << Ev("data", L220), Ev("data", L250), Ev("data", L550) >>,
      << Ev("data", L550), Ev("close", <<>>) >>,
      << Ev("error", <<>>) >>,
      << >> }

ScriptsFor(hosts) == [1..Len(hosts) -> HostScripts]

-----------------------------------------------------------------------------
(* getMxRecords *)

\* Array.prototype.sort((a, b) => a.priority - b.priority): stable
RECURSIVE SortByPriority(_)
SortByPriority(records) ==
    IF records = <<>> THEN <<>>
    ELSE LET init == SortByPriority(SubSeq(records, 1, Len(records) - 1))
             r == records[Len(records)]
             n == Cardinality({i \in 1..Len(init) : init[i].priority <= r.priority})
         IN  SubSeq(init, 1, n) \o <<r>> \o SubSeq(init, n + 1, Len(init))

\* Mutant of getMxRecords: a failed lookup falls back to a default host
getMxRecordsFallback(answer) ==
    IF answer.ok
    THEN LET sorted == SortByPriority(answer.records)
         IN  [i \in 1..Len(sorted) |-> sorted[i].exchange]
    ELSE << <<"mx1">> >>

\* answer: what dns.resolveMx does, [ok, records]
getMxRecords(answer) ==
    IF answer.ok
    THEN LET sorted == SortByPriority(answer.records)
         IN  [i \in 1..Len(sorted) |-> sorted[i].exchange]
    ELSE <<>>

Mx(exchange, priority) == [exchange |-> exchange, priority |-> priority]

DnsAnswers ==
    { [ok |-> FALSE, records |-> <<>>],
      [ok |-> TRUE, records |-> <<>>],
      [ok |-> TRUE, records |-> <<Mx(<<"mx1">>, 10)>>],
      [ok |-> TRUE, records |-> <<Mx(<<"mx2">>, 20), Mx(<<"mx1">>, 10)>>] }

-----------------------------------------------------------------------------
(* verifyNeverBounce *)

\* What one axios.get gives: a result label of the service; "throw" for a
\* rejected request (network error, HTTP status outside 2xx); "nobody" for a
\* response without a body (data is undefined)
NbAnswers ==
    {"valid", "catchall", "invalid", "unknown", "disposable", "throw", "nobody"}

\* The request failed, or reading .result of an undefined body threw
Throws(answer) == answer \in {"throw", "nobody"}

\* err.message
Message(answer) ==
    IF answer = "nobody" THEN <<"TypeError">> ELSE <<"Request failed">>

NbResult(success, text, arg, requests) ==
    [success |-> success, info |-> Info(text, arg), requests |-> requests]

\* The value was returned by the catch block (line 128)
Caught(nb) == nb.info.text = "NeverBounce error: "

\* Mutant of verifyNeverBounce: no retry, 'unknown' is reported at once
verifyNeverBounceNoRetry(e, first, second) ==
    IF Throws(first) THEN NbResult(FALSE, "NeverBounce error: ", Message(first), 1)
    ELSE IF first = "valid" THEN NbResult(TRUE, "NeverBounce: valid", <<>>, 1)
    ELSE IF first = "catchall" THEN NbResult(FALSE, "NeverBounce: catch-all", <<>>, 1)
    ELSE IF first = "invalid" THEN NbResult(FALSE, "NeverBounce: invalid", <<>>, 1)
    ELSE NbResult(FALSE, "NeverBounce: ", <<first>>, 1)

\* first, second: the answers to the first request and to the retry
verifyNeverBounce(e, first, second) ==
    IF Throws(first) THEN NbResult(FALSE, "NeverBounce error: ", Message(first), 1)
    ELSE IF first = "valid" THEN NbResult(TRUE, "NeverBounce: valid", <<>>, 1)
    ELSE IF first = "catchall" THEN NbResult(FALSE, "NeverBounce: catch-all", <<>>, 1)
    ELSE IF first = "invalid" THEN NbResult(FALSE, "NeverBounce: invalid", <<>>, 1)
    ELSE IF first = "unknown"
    THEN IF Throws(second)
         THEN NbResult(FALSE, "NeverBounce error: ", Message(second), 2)
         ELSE IF second = "valid"
         THEN NbResult(TRUE, "NeverBounce: valid (retry)", <<>>, 2)
         ELSE NbResult(FALSE, "NeverBounce: ", <<second>>, 2)
    ELSE NbResult(FALSE, "NeverBounce: ", <<first>>, 1)

-----------------------------------------------------------------------------
(* processInputCSV: the progress file *)

\* JSON values: an array of items, the object {}, null. An item of an array
\* is a progress record or null. The JavaScript null of a record's email is
\* JsNull, which no string equals.
JNull == [t |-> "null"]
JObject == [t |-> "object"]
JArray(items) == [t |-> "array", items |-> items]
JsNull == <<"null">>

ProgressRecord(name, domain, mail, found, ts) ==
    [name |-> name, domain |-> domain, email |-> mail, found |-> found, ts |-> ts]

\* The file: missing, or text that is empty, not JSON, or the JSON of a value
MissingFile == [kind |-> "missing", value |-> JNull]
EmptyFile == [kind |-> "empty", value |-> JNull]
GarbageFile == [kind |-> "garbage", value |-> JNull]
JsonFile(v) == [kind |-> "json", value |-> v]

\* JSON.stringify(progress, null, 2) as written by fs.writeFileSync
Stringify(array) == JsonFile(JArray(array))

\* Lines 145-152: existsSync, readFileSync, `|| '[]'`, JSON.parse, catch
ReadProgress(f) ==
    IF f.kind = "json" THEN f.value
    ELSE \* missing; '' parsed as '[]'; JSON.parse throws and is caught
         JArray(<<>>)

\* `${domain}||${name}`
Key(domain, name) == domain \o <<"|", "|">> \o name

\* progress.map(p => ...) throws a TypeError when progress is no array or an
\* item is null
MapThrows(v) ==
    \/ v.t # "array"
    \/ \E i \in 1..Len(v.items) : v.items[i] = JNull

KeysOf(array) == {Key(array[i].domain, array[i].name) : i \in 1..Len(array)}

-----------------------------------------------------------------------------
(* processInputCSV: the batch *)

Entry(fullName, domain) == [fullName |-> fullName, domain |-> domain]

EntryUniverse ==
    { Entry(<<"A", " ", "B">>, <<"X">>), Entry(<<"C">>, <<"X">>) }

EntryLists == SeqsUpTo(EntryUniverse, MaxEntries)

\* What progress.json can hold when the program first starts
InitItems ==
    {JNull}
    \cup {ProgressRecord(en.fullName, en.domain, JsNull, FALSE, 0) : en \in EntryUniverse}
    \cup {ProgressRecord(en.fullName, en.domain,
                         generateEmailCandidates(en.fullName, en.domain)[1], TRUE, 0) :
              en \in EntryUniverse}

InitFiles ==
    {MissingFile, EmptyFile, GarbageFile, JsonFile(JNull), JsonFile(JObject)}
    \cup {JsonFile(JArray(items)) : items \in SeqsUpTo(InitItems, MaxFileRecords)}

Init ==
    /\ entries \in EntryLists
    /\ file \in InitFiles
    /\ progress = <<>>
    /\ processedSet = {}
    /\ verified = <<>>
    /\ pc = "start"
    /\ idx = 1
    /\ cur = NoCur
    /\ log = <<>>
    /\ run = 1
    /\ hist = NoHist
    /\ ProbeOff
    /\ FnOff

\* A call made for the current entry: which, for what, its outcome, and
\* whether it opened a connection to a mail exchanger
Logged(op, arg, success, opened) ==
    [op |-> op, arg |-> arg, success |-> success, opened |-> opened]

\* Mutant of Skips: the key is built name first
SkipsNameFirst(set, en) == Key(en.fullName, en.domain) \in set

\* processedSet.has(key)
Skips(set, en) == Key(en.domain, en.fullName) \in set

\* Lines 145-155: load the progress file and build processedSet
Load ==
    /\ pc = "start"
    /\ LET v == ReadProgress(file)
       IN  IF MapThrows(v)
           THEN /\ pc' = "aborted"
                /\ UNCHANGED <<progress, processedSet, hist>>
           ELSE /\ pc' = "loop"
                /\ progress' = v.items
                /\ processedSet' = KeysOf(v.items)
                /\ hist' = [hist EXCEPT !.loaded = Len(v.items),
                                        !.durable = KeysOf(v.items)]
    /\ UNCHANGED <<entries, file, verified, idx, cur, log, run>>
    /\ UNCHANGED <<probeVars, fnVars>>

\* Line 159: an entry whose key is in processedSet is passed over
SkipEntry ==
    /\ pc = "loop"
    /\ idx <= Len(entries)
    /\ Skips(processedSet, entries[idx])
    /\ idx' = idx + 1
    /\ UNCHANGED <<entries, file, progress, processedSet, verified, pc, cur, log,
                   run, hist>>
    /\ UNCHANGED <<probeVars, fnVars>>

\* Line 161: the entry is taken up and its candidates generated
BeginEntry ==
    /\ pc = "loop"
    /\ idx <= Len(entries)
    /\ ~Skips(processedSet, entries[idx])
    /\ cur' = [fullName |-> entries[idx].fullName,
               domain |-> entries[idx].domain,
               candidates |-> generateEmailCandidates(entries[idx].fullName,
                                                      entries[idx].domain),
               dns |-> [ok |-> FALSE, records |-> <<>>],
               mxHosts |-> <<>>, catchAll |-> FALSE, cidx |-> 1, found |-> FALSE,
               nbCaught |-> FALSE]
    /\ log' = <<>>
    /\ pc' = "mx"
    /\ UNCHANGED <<entries, file, progress, processedSet, verified, idx, run, hist>>
    /\ UNCHANGED <<probeVars, fnVars>>

\* Line 162: await getMxRecords(domain)
ResolveMx ==
    /\ pc = "mx"
    /\ \E answer \in DnsAnswers :
           /\ cur' = [cur EXCEPT !.dns = answer, !.mxHosts = getMxRecords(answer)]
           /\ log' = Append(log, Logged("mx", cur.domain, answer.ok, FALSE))
    /\ pc' = "catchall"
    /\ UNCHANGED <<entries, file, progress, processedSet, verified, idx, run, hist>>
    /\ UNCHANGED <<probeVars, fnVars>>

\* `random_${Date.now()}@${domain}`
CatchAllProbe(domain, now) ==
    <<"r", "a", "n", "d", "o", "m", "_", ToString(now), "@">> \o domain

\* The addresses the batch can pass to verifySMTP, and the host lists
BatchEmails ==
    UNION {{generateEmailCandidates(en.fullName, en.domain)[k] :
                k \in 1..Len(generateEmailCandidates(en.fullName, en.domain))} :
           en \in EntryUniverse}
    \cup {CatchAllProbe(en.domain, now) : en \in EntryUniverse, now \in 1..MaxRuns}

BatchMxLists == {getMxRecords(answer) : answer \in DnsAnswers}

\* Every call of verifySMTP the batch can make with what it can return,
\* over all behaviours of the hosts (evaluated once)
ProbeCalls ==
    UNION {{[email |-> e, hosts |-> hosts, r |-> verifySMTP(e, hosts, scripts)] :
                e \in BatchEmails, scripts \in ScriptsFor(hosts)} :
           hosts \in BatchMxLists}

\* await verifySMTP(e, hosts): what it can return
Probes(e, hosts) == {call.r : call \in {c \in ProbeCalls : c.email = e /\ c.hosts = hosts}}

\* Mutant of CatchAll: a catch-all domain has no candidate tried
CatchAllBlocksCandidates ==
    /\ pc = "catchall"
    /\ \E r \in Probes(CatchAllProbe(cur.domain, run), cur.mxHosts) :
           /\ cur' = [cur EXCEPT !.catchAll = r.result.success]
           /\ log' = Append(log, Logged("catchall", r.result.email,
                                         r.result.success, r.connections > 0))
           /\ pc' = IF cur.candidates = <<>> \/ r.result.success
                    THEN "append" ELSE "cand"
    /\ UNCHANGED <<entries, file, progress, processedSet, verified, idx, run, hist>>
    /\ UNCHANGED <<probeVars, fnVars>>

\* Lines 163-166: await isCatchAll(domain, mxHosts); found = false
CatchAll ==
    /\ pc = "catchall"
    /\ \E r \in Probes(CatchAllProbe(cur.domain, run), cur.mxHosts) :
           /\ cur' = [cur EXCEPT !.catchAll = r.result.success]
           /\ log' = Append(log, Logged("catchall", r.result.email,
                                         r.result.success, r.connections > 0))
    /\ pc' = IF cur.candidates = <<>> THEN "append" ELSE "cand"
    /\ UNCHANGED <<entries, file, progress, processedSet, verified, idx, run, hist>>
    /\ UNCHANGED <<probeVars, fnVars>>

\* Mutant of NextCandidate: the loop ends at the first candidate not accepted
NextCandidateStop(c) == [c |-> c, pc |-> "append"]

\* where the candidate loop goes after a candidate that was not accepted
NextCandidate(c) ==
    IF c.cidx < Len(c.candidates)
    THEN [c |-> [c EXCEPT !.cidx = @ + 1], pc |-> "cand"]
    ELSE [c |-> c, pc |-> "append"]

\* Mutant of AfterSmtp: the `continue` is missing
AfterSmtpNoContinue(c, success) == [c |-> c, pc |-> "nb"]

\* Line 171: if (!smtp.success) continue
AfterSmtp(c, success) ==
    IF success THEN [c |-> c, pc |-> "nb"] ELSE NextCandidate(c)

\* Lines 169-171: await verifySMTP(email, mxHosts); continue unless accepted
ProbeCandidate ==
    /\ pc = "cand"
    /\ \E r \in Probes(cur.candidates[cur.cidx], cur.mxHosts) :
           LET e == cur.candidates[cur.cidx]
           IN  /\ log' = Append(log, Logged("smtp", e, r.result.success,
                                             r.connections > 0))
               /\ pc' = AfterSmtp(cur, r.result.success).pc
               /\ cur' = AfterSmtp(cur, r.result.success).c
    /\ UNCHANGED <<entries, file, progress, processedSet, verified, idx, run, hist>>
    /\ UNCHANGED <<probeVars, fnVars>>

\* Lines 173-181: await verifyNeverBounce(email); on success push to verified,
\* found = true, break
Validate ==
    /\ pc = "nb"
    /\ \E first \in NbAnswers, second \in NbAnswers :
           LET e == cur.candidates[cur.cidx]
               nb == verifyNeverBounce(e, first, second)
           IN  /\ log' = Append(log, Logged("nb", e, nb.success, FALSE))
               /\ IF nb.success
                  THEN /\ verified' = Append(verified,
                              [name |-> cur.fullName, domain |-> cur.domain,
                               email |-> e, method |-> "SMTP+NeverBounce"])
                       /\ cur' = [cur EXCEPT !.found = TRUE, !.nbCaught = FALSE]
                       /\ pc' = "append"
                  ELSE /\ verified' = verified
                       /\ pc' = NextCandidate(cur).pc
                       /\ cur' = [NextCandidate(cur).c EXCEPT !.nbCaught = Caught(nb)]
    /\ UNCHANGED <<entries, file, progress, processedSet, idx, run, hist>>
    /\ UNCHANGED <<probeVars, fnVars>>

\* Mutant of FoundEmail: the last verified email, whatever found is
FoundEmailLastVerified(v, found) == IF v # <<>> THEN v[Len(v)].email ELSE JsNull

\* Line 189: found ? verified[verified.length - 1].email : null
FoundEmail(v, found) == IF found THEN v[Len(v)].email ELSE JsNull

\* Lines 186-192: progress.push({...})
AppendProgress ==
    /\ pc = "append"
    /\ progress' = Append(progress,
           ProgressRecord(cur.fullName, cur.domain, FoundEmail(verified, cur.found),
                          cur.found, run))
    /\ pc' = "write"
    /\ UNCHANGED <<entries, file, processedSet, verified, idx, cur, log, run, hist>>
    /\ UNCHANGED <<probeVars, fnVars>>

\* Mutant of AddProcessed: the key is not added
AddProcessedNothing(set, c) == set

\* Line 194: processedSet.add(key)
AddProcessed(set, c) == set \cup {Key(c.domain, c.fullName)}

\* Lines 193-194: fs.writeFileSync(PROGRESS_FILE, ...); processedSet.add(key)
WriteProgress ==
    /\ pc = "write"
    /\ file' = Stringify(progress)
    /\ processedSet' = AddProcessed(processedSet, cur)
    /\ hist' = [hist EXCEPT !.durable = @ \cup {Key(cur.domain, cur.fullName)}]
    /\ idx' = idx + 1
    /\ pc' = "loop"
    /\ UNCHANGED <<entries, progress, verified, cur, log, run>>
    /\ UNCHANGED <<probeVars, fnVars>>

\* Line 197: the loop is over
Finish ==
    /\ pc = "loop"
    /\ idx > Len(entries)
    /\ pc' = "done"
    /\ UNCHANGED <<entries, file, progress, processedSet, verified, idx, cur, log,
                   run, hist>>
    /\ UNCHANGED <<probeVars, fnVars>>

Running == pc \in {"start", "loop", "mx", "catchall", "cand", "nb", "append", "write"}

\* The process is killed; the file is as it was
Crash ==
    /\ Running
    /\ pc' = "crashed"
    /\ UNCHANGED <<entries, file, progress, processedSet, verified, idx, cur, log,
                   run, hist>>
    /\ UNCHANGED <<probeVars, fnVars>>

\* The process is killed inside fs.writeFileSync, which opens the file with
\* flag 'w' (truncating it) and then writes: the file is left empty, or holds
\* the beginning of the JSON text
CrashInWrite ==
    /\ pc = "write"
    /\ file' \in {EmptyFile, GarbageFile}
    /\ pc' = "crashed"
    /\ UNCHANGED <<entries, progress, processedSet, verified, idx, cur, log, run, hist>>
    /\ UNCHANGED <<probeVars, fnVars>>

\* The program is started again on the same input
Restart ==
    /\ pc \in {"done", "crashed", "aborted"}
    /\ run < MaxRuns
    /\ run' = run + 1
    /\ hist' = [hist EXCEPT !.prev = pc, !.loaded = 0]
    /\ progress' = <<>>
    /\ processedSet' = {}
    /\ verified' = <<>>
    /\ pc' = "start"
    /\ idx' = 1
    /\ cur' = NoCur
    /\ log' = <<>>
    /\ UNCHANGED <<entries, file>>
    /\ UNCHANGED <<probeVars, fnVars>>

Next ==
    \/ Load \/ SkipEntry \/ BeginEntry \/ ResolveMx \/ CatchAll
    \/ ProbeCandidate \/ Validate \/ AppendProgress \/ WriteProgress \/ Finish
    \/ Crash \/ CrashInWrite \/ Restart

Spec == Init /\ [][Next]_vars

-----------------------------------------------------------------------------
(* Properties of a host session (specification SpecProbe) *)

\* The lines of a receive buffer with the offset each starts at; the last
\* piece has no CRLF yet
RECURSIVE WithOffsets(_, _, _)
WithOffsets(lines, k, off) ==
    IF k > Len(lines) THEN <<>>
    ELSE <<[text |-> lines[k], off |-> off, complete |-> k < Len(lines)]>>
         \o WithOffsets(lines, k + 1, off + Len(lines[k]) + 2)

ReceivedLines(s) ==
    LET all == WithOffsets(SplitCRLF(s.buffer), 1, 0)
    IN  {all[k] : k \in {j \in 1..Len(all) : all[j].complete /\ all[j].text # <<>>}}

Is2xx(text) == text[1] = "2"

WroteRcpt(s) == \E k \in 1..Len(s.written) : s.written[k].verb = "RCPT TO"

RcptAt(s) == s.written[CHOOSE k \in 1..Len(s.written) : s.written[k].verb = "RCPT TO"].at

\* The lines the server sent after RCPT TO was written
RcptReplies(s) == IF WroteRcpt(s) THEN {l \in ReceivedLines(s) : l.off >= RcptAt(s)} ELSE {}

Accepted(s) == s.promise.settled /\ s.promise.value.success

\* C1: a session resolves ACCEPT only on a 2xx line that arrived after RCPT TO
\* was written: the line that decided the verdict is one of the replies to
\* RCPT TO and is 2xx.
C1_AcceptOnlyOnRcptReply ==
    \A i \in 1..Len(socks) :
        Accepted(socks[i]) =>
            \E l \in RcptReplies(socks[i]) : l.off = socks[i].verdictAt /\ Is2xx(l.text)

\* C2: when a host's first reply to RCPT TO is not 2xx, verifySMTP has returned
\* REJECT with that line as its reason and has contacted no later host.
C2_FirstVerdictWins ==
    \A i \in 1..Len(socks) :
        \A l \in RcptReplies(socks[i]) :
            (/\ \A m \in RcptReplies(socks[i]) : l.off <= m.off
             /\ ~Is2xx(l.text))
            => /\ vpc = "returned"
               /\ ret = Result(email, FALSE, Info("SMTP rejected: ", l.text))
               /\ Len(socks) = i

\* A non-2xx line has been received and the session is still awaiting the
\* greeting or the reply to EHLO
FailedEarly(s) ==
    /\ s.stage \in {0, 1}
    /\ \E l \in ReceivedLines(s) : ~Is2xx(l.text)

\* C10: after a non-2xx response in S0 or S1 the session advances no further,
\* writes no further command and never resolves ACCEPT.
C10_NonOkReplyFailsSession ==
    [][\A i \in 1..Len(socks) :
           FailedEarly(socks[i]) =>
               /\ socks'[i].stage = socks[i].stage
               /\ socks'[i].written = socks[i].written
               /\ ~Accepted(socks'[i])]_vars

-----------------------------------------------------------------------------
(* Properties of the batch (specification Spec) *)

\* The keys of the records loaded from the progress file at this start
StartKeys == KeysOf(SubSeq(progress, 1, hist.loaded))

CurKey == Key(cur.domain, cur.fullName)

\* C3: an entry whose key is in the progress file at startup is skipped,
\* whatever its found value: no call is made for it and no record appended;
\* a run after a completed run processes nothing and appends nothing.
C3_RecordedEntriesSkipped ==
    /\ log # <<>> => CurKey \notin StartKeys
    /\ \A j \in (hist.loaded + 1)..Len(progress) :
           Key(progress[j].domain, progress[j].name) \notin StartKeys
    /\ hist.prev = "done" =>
           /\ log = <<>>
           /\ Len(progress) = hist.loaded
           /\ pc \in {"start", "loop", "done", "crashed"}

\* A run after a completed run has passed over every entry, one of them
\* recorded as not found by the first run
C3_Witness ==
    /\ hist.prev = "done"
    /\ pc = "done"
    /\ Len(entries) = 2
    /\ \E j \in 1..Len(progress) : ~progress[j].found /\ progress[j].ts = 1

\* C4: a start after a crash loads a record for every entry that was in the
\* file at the previous start or was completed since.
C4_CrashKeepsPriorProgress ==
    [][(pc = "start" /\ pc' = "loop") => hist.durable \subseteq KeysOf(progress')]_vars

\* The progress file holds no array of records
BadFile(f) == f.kind # "json" \/ MapThrows(f.value)

\* C5: whatever the progress file holds, the batch is not aborted and a file
\* that is no array of records counts as no progress.
C5_BadFileIsNoProgress ==
    (BadFile(file) /\ pc \notin {"start", "crashed"}) =>
        /\ pc # "aborted"
        /\ hist.loaded = 0

Calls(ops) == SelectSeq(log, LAMBDA c : c.op \in ops)

\* C6: candidates are probed in generation order, the validator is called
\* only right after the probe accepted the same candidate, a rejected
\* candidate is followed by the next one, and nothing follows the first
\* candidate accepted by both.
C6_CandidateLoopOrder ==
    LET calls == Calls({"smtp", "nb"})
        probes == Calls({"smtp"})
    IN  /\ \A k \in 1..Len(probes) : probes[k].arg = cur.candidates[k]
        /\ \A k \in 1..Len(calls) :
               /\ calls[k].op = "nb" =>
                      /\ k > 1
                      /\ calls[k - 1] = [calls[k] EXCEPT !.op = "smtp", !.success = TRUE,
                                                          !.opened = TRUE]
               /\ (calls[k].op = "smtp" /\ calls[k].success /\ k < Len(calls)) =>
                      calls[k + 1].op = "nb"
               /\ (calls[k].op = "nb" /\ calls[k].success) => k = Len(calls)
        /\ pc \in {"append", "write"} =>
               \/ /\ cur.found
                  /\ calls # <<>>
                  /\ calls[Len(calls)].op = "nb"
                  /\ calls[Len(calls)].success
               \/ /\ ~cur.found
                  /\ Len(probes) = Len(cur.candidates)

\* The first candidate was rejected by the probe, the second by the
\* validator, the third accepted by both
C6_Witness ==
    /\ pc = "write"
    /\ cur.found
    /\ cur.cidx = 3
    /\ Len(Calls({"smtp"})) = 3
    /\ Len(Calls({"nb"})) = 2

\* C7: the verified list holds at most one record per (domain, fullName).
C7_OneVerifiedPerEntry ==
    \A i \in 1..Len(verified), j \in 1..Len(verified) :
        (verified[i].domain = verified[j].domain /\ verified[i].name = verified[j].name)
            => i = j

\* The input holds the same row twice and the run verified it
C7_Witness ==
    /\ pc = "done"
    /\ Len(entries) = 2
    /\ entries[1] = entries[2]
    /\ Len(verified) = 1

FileItems(f) ==
    IF f.kind = "json" /\ f.value.t = "array"
    THEN {f.value.items[i] : i \in 1..Len(f.value.items)}
    ELSE {}

NoDuplicateKeys(f) ==
    (f.kind = "json" /\ ~MapThrows(f.value)) =>
        \A i \in 1..Len(f.value.items), j \in 1..Len(f.value.items) :
            Key(f.value.items[i].domain, f.value.items[i].name)
              = Key(f.value.items[j].domain, f.value.items[j].name) => i = j

\* C8: the progress file is append-only and keyed uniquely: a record in the
\* file stays in it unchanged, no key comes to appear twice, and when an
\* entry is taken up every earlier entry of the input has its record in the
\* file.
C8_AppendOnlyUniqueKeys ==
    [][/\ FileItems(file) \subseteq FileItems(file')
       /\ NoDuplicateKeys(file) => NoDuplicateKeys(file')
       /\ (pc = "loop" /\ pc' = "mx") =>
              \A k \in 1..(idx - 1) :
                  \E r \in FileItems(file) :
                      r # JNull /\ Key(r.domain, r.name) = Key(entries[k].domain,
                                                              entries[k].fullName)]_vars

\* The resolver failed or answered with no records for the current entry
NoMx == log # <<>> /\ (~cur.dns.ok \/ cur.dns.records = <<>>)

\* The current entry's record has been pushed
Recorded == pc = "write" \/ (pc \in {"loop", "done"} /\ log # <<>>)

\* C9: without MX records getMxRecords gives the empty list, every probe is
\* rejected without a connection, the validator is not called, nothing is
\* verified, and the entry gets one record with found = false, email = null.
C9_NoMxMeansNotFound ==
    NoMx =>
        /\ cur.mxHosts = <<>>
        /\ \A k \in 1..Len(log) :
               /\ log[k].op # "nb"
               /\ log[k].op \in {"smtp", "catchall"} => ~log[k].success /\ ~log[k].opened
        /\ ~cur.found
        /\ \A k \in 1..Len(verified) :
               ~(verified[k].name = cur.fullName /\ verified[k].domain = cur.domain)
        /\ pc # "aborted"
        /\ Recorded =>
               /\ Cardinality({j \in 1..Len(progress) :
                      Key(progress[j].domain, progress[j].name) = CurKey}) = 1
               /\ progress[Len(progress)] =
                      ProgressRecord(cur.fullName, cur.domain, JsNull, FALSE, run)

\* The lookup failed for the first of two entries, all four candidates were
\* probed, the record written, and the batch is at the second entry
C9_Witness ==
    /\ NoMx
    /\ ~cur.dns.ok
    /\ Len(Calls({"smtp"})) = 4
    /\ pc = "loop"
    /\ idx = 2
    /\ Len(entries) = 2

-----------------------------------------------------------------------------
(* Further properties of a host session (specification SpecProbe) *)

\* C11: a session ended by the response timeout resolves REJECT with a
\* reason of its own, different from the reason of a connection closed by
\* the peer ('SMTP closed') and of a connection error ('SMTP error'), and the
\* call has moved on from that host.
C11_TimeoutHasOwnReason ==
    \A i \in 1..Len(socks) :
        socks[i].settledBy = "timeout" =>
            /\ ~socks[i].promise.value.success
            /\ socks[i].promise.value.info.text \notin {"SMTP closed", "SMTP error"}
            /\ Len(socks) > i \/ vpc = "returned"

-----------------------------------------------------------------------------
(* The pure functions, called on their own (specification SpecFn) *)

NameChars == {"A", "b", " ", "\t"}

\* row.fullName and row.domain are non-empty (line 139)
FullNames == SeqsUpTo(NameChars, MaxNameLen) \ {<<>>}

Domains == {<<"X">>, <<"y">>}

GenerateCalls ==
    {[fn |-> "generateEmailCandidates", fullName |-> n, domain |-> dm] :
         n \in FullNames, dm \in Domains}

NeverBounceCalls ==
    {[fn |-> "verifyNeverBounce", email |-> e, first |-> a, second |-> b] :
         e \in ProbeEmails, a \in NbAnswers, b \in NbAnswers}

InitFn ==
    /\ fnIn \in GenerateCalls \cup NeverBounceCalls
    /\ fnOut = NoOut
    /\ ProbeOff
    /\ BatchOff

Returned(value) == [done |-> TRUE, value |-> value]

ApplyGenerate ==
    /\ fnIn.fn = "generateEmailCandidates"
    /\ ~fnOut.done
    /\ fnOut' = Returned(generateEmailCandidates(fnIn.fullName, fnIn.domain))
    /\ UNCHANGED <<fnIn, probeVars, batchVars>>

ApplyNeverBounce ==
    /\ fnIn.fn = "verifyNeverBounce"
    /\ ~fnOut.done
    /\ fnOut' = Returned(verifyNeverBounce(fnIn.email, fnIn.first, fnIn.second))
    /\ UNCHANGED <<fnIn, probeVars, batchVars>>

NextFn == ApplyGenerate \/ ApplyNeverBounce

SpecFn == InitFn /\ [][NextFn]_vars

-----------------------------------------------------------------------------
(* Properties of verifyNeverBounce *)

NbCalled == fnIn.fn = "verifyNeverBounce" /\ fnOut.done

\* The answers that carried a verdict, in the order received
VerdictsReceived(first, second, requests) ==
    SelectSeq(SubSeq(<<first, second>>, 1, requests), LAMBDA a : ~Throws(a))

LastVerdictIsValid(first, second, requests) ==
    LET got == VerdictsReceived(first, second, requests)
    IN  got # <<>> /\ got[Len(got)] = "valid"

\* C12: verifyNeverBounce makes one request, and a second one exactly when
\* the first verdict is 'unknown'; it accepts exactly when the last verdict
\* it received is 'valid'.
C12_RetryOnceOnUnknown ==
    NbCalled =>
        /\ fnOut.value.requests \in {1, 2}
        /\ fnOut.value.requests = 2 <=> fnIn.first = "unknown"
        /\ fnOut.value.success <=>
               LastVerdictIsValid(fnIn.first, fnIn.second, fnOut.value.requests)

C12_Witness ==
    /\ NbCalled
    /\ fnIn.first = "unknown"
    /\ fnIn.second = "valid"
    /\ fnOut.value.requests = 2
    /\ fnOut.value.success


\* A request of the call failed: the first one, or the retry
NbFailed(first, second) == Throws(first) \/ (first = "unknown" /\ Throws(second))

\* Every failed call returns, from the catch block, a rejection with a reason
FailedCallsRejected ==
    \A e \in ProbeEmails, first \in NbAnswers, second \in NbAnswers :
        NbFailed(first, second) =>
            LET nb == verifyNeverBounce(e, first, second)
            IN  /\ ~nb.success
                /\ Caught(nb)
                /\ nb.info.arg # <<>>

CurRecordNotFound == ProgressRecord(cur.fullName, cur.domain, JsNull, FALSE, run)

\* C13: a request of verifyNeverBounce that fails, first or retry, makes the
\* call return a rejection with a diagnostic reason; the batch then goes on
\* to the next candidate of the entry (or, after the last one, to the
\* entry's record), verifies nothing, is not aborted, and the record of such
\* an entry is written to the progress file.
C13_ValidatorFailureIsRejection ==
    [][ /\ FailedCallsRejected
        /\ (pc = "nb" /\ pc' # "crashed" /\ cur'.nbCaught) =>
               /\ ~cur'.found
               /\ verified' = verified
               /\ IF cur.cidx < Len(cur.candidates)
                  THEN pc' = "cand" /\ cur'.cidx = cur.cidx + 1
                  ELSE pc' = "append"
        /\ (pc = "append" /\ cur.nbCaught /\ pc' # "crashed") =>
               /\ pc' = "write"
               /\ progress' = Append(progress, CurRecordNotFound)
        /\ (pc = "write" /\ cur.nbCaught /\ pc' = "loop") =>
               CurRecordNotFound \in FileItems(file')
      ]_vars

\* The validator call for one candidate was caught, the next candidate was
\* probed, and the entry's record is in the file
C13_Witness ==
    /\ pc = "loop"
    /\ cur.nbCaught
    /\ Len(Calls({"nb"})) = 1
    /\ log[Len(log)].op = "smtp"
    /\ CurRecordNotFound \in FileItems(file)

-----------------------------------------------------------------------------
(* Properties of generateEmailCandidates *)

GenerateCalled == fnIn.fn = "generateEmailCandidates" /\ fnOut.done

\* The whitespace-delimited tokens of a string: its maximal runs of
\* characters that are not whitespace
RECURSIVE Tokens(_)
Tokens(s) ==
    IF s = <<>> THEN <<>>
    ELSE IF IsSpace(s[1]) THEN Tokens(Tail(s))
    ELSE LET n == IF \E i \in 1..Len(s) : IsSpace(s[i])
                  THEN CHOOSE i \in 1..Len(s) :
                           IsSpace(s[i]) /\ \A k \in 1..(i - 1) : ~IsSpace(s[k])
                  ELSE Len(s) + 1
         IN  <<SubSeq(s, 1, n - 1)>> \o Tokens(SubSeq(s, n, Len(s)))

Address(local, domain) == ToLowerCase(local) \o <<"@">> \o ToLowerCase(domain)

\* C15: a fullName of exactly one whitespace-delimited token, leading and
\* trailing whitespace included, gives exactly one candidate, the lower-cased
\* token at the lower-cased domain.
C15_OneTokenOneCandidate ==
    (GenerateCalled /\ Len(Tokens(fnIn.fullName)) = 1) =>
        fnOut.value = << Address(Tokens(fnIn.fullName)[1], fnIn.domain) >>

\* The six patterns of a first and a last token, in priority order
Patterns(first, last) ==
    << first, first \o <<".">> \o last, <<first[1]>> \o last,
       first \o <<last[1]>>, first \o last, last >>

\* C16: a fullName of two or more tokens, whatever whitespace separates
\* them, gives the six patterns of its first and last token, lower-cased, at
\* the lower-cased domain, in priority order with repeats removed.
C16_PatternsInPriorityOrder ==
    (GenerateCalled /\ Len(Tokens(fnIn.fullName)) >= 2) =>
        LET toks == Tokens(fnIn.fullName)
            pats == Patterns(toks[1], toks[Len(toks)])
            out == fnOut.value
        IN  /\ out = Dedup([i \in 1..6 |-> Address(pats[i], fnIn.domain)])
            /\ \A i \in 1..Len(out), j \in 1..Len(out) : out[i] = out[j] => i = j
            /\ \A i \in 1..Len(out) :
                   \E local \in {Address(pats[k], <<>>) : k \in 1..6} :
                       /\ Len(local) > 1
                       /\ out[i] = local \o ToLowerCase(fnIn.domain)

-----------------------------------------------------------------------------
(* Properties of the command sequence of a host session (SpecProbe) *)

\* The lines that arrived after the k-th command was written and were in
\* the buffer when the next command was written
RepliesTo(s, k) ==
    {l \in ReceivedLines(s) :
         l.off >= s.written[k].at /\ l.off < s.written[k + 1].at}

Previous(verb) ==
    CASE verb = "MAIL FROM" -> "EHLO"
      [] verb = "RCPT TO" -> "MAIL FROM"
      [] OTHER -> ""

\* C17: MAIL FROM is written only after a 2xx line that arrived after EHLO
\* was written, RCPT TO only after a 2xx line that arrived after MAIL FROM
\* was written, and RCPT TO is not written when a line that arrived in reply
\* to MAIL FROM is not 2xx.
C17_CommandAfterOkReply ==
    \A i \in 1..Len(socks) :
        \A k \in 1..(Len(socks[i].written) - 1) :
            socks[i].written[k + 1].verb \in {"MAIL FROM", "RCPT TO"} =>
                /\ socks[i].written[k].verb = Previous(socks[i].written[k + 1].verb)
                /\ \E l \in RepliesTo(socks[i], k) : Is2xx(l.text)
                /\ \A l \in RepliesTo(socks[i], k) : Is2xx(l.text)


Commands == <<"EHLO", "MAIL FROM", "RCPT TO", "QUIT">>

Verbs(s) == [k \in 1..Len(s.written) |-> s.written[k].verb]

WroteQuit(s) == \E k \in 1..Len(s.written) : s.written[k].verb = "QUIT"

\* The promise was settled by a reply read at stage 3
HasVerdict(s) ==
    /\ s.promise.settled
    /\ s.verdictAt >= 0
    /\ s.promise.value.info.text \in {"SMTP accepted: ", "SMTP rejected: "}

\* C18: the stage of a session never decreases; what a session has written
\* is always a prefix of EHLO, MAIL FROM, RCPT TO, QUIT, so each command is
\* written at most once, in that order, and nothing else is written; QUIT
\* is written in the step that resolves the session with its verdict.
C18_CommandsOnceInOrder ==
    [][ /\ \A i \in 1..Len(socks') :
               \E n \in 0..4 : Verbs(socks'[i]) = SubSeq(Commands, 1, n)
        /\ \A i \in 1..Len(socks) :
               /\ Len(socks') >= Len(socks)
               /\ socks'[i].stage >= socks[i].stage
               /\ SubSeq(socks'[i].written, 1, Len(socks[i].written))
                    = socks[i].written
               /\ (WroteQuit(socks'[i]) /\ ~WroteQuit(socks[i])) =>
                      /\ ~socks[i].promise.settled
                      /\ HasVerdict(socks'[i])
                      /\ socks'[i].stage = 4
      ]_vars

\* A session wrote the four commands, and a further line arrived after its
\* verdict
C18_Witness ==
    \E i \in 1..Len(socks) :
        /\ Verbs(socks[i]) = Commands
        /\ socks[i].stage = 4
        /\ \E l \in ReceivedLines(socks[i]) : l.off > socks[i].verdictAt


OpenConnections == {i \in 1..Len(socks) : socks[i].conn = "open"}

\* C19: sessions are strictly one at a time: when the session with the next
\* host has been started every earlier connection is closed, so two
\* connections are never open at once.
C19_OneSessionAtATime ==
    /\ Cardinality(OpenConnections) <= 1
    /\ \A i \in 1..(Len(socks) - 1) : socks[i].conn # "open"

-----------------------------------------------------------------------------
(* Consistency of the progress records (specification Spec) *)

\* The indexes of the records pushed by this run
WrittenThisRun == (hist.loaded + 1)..Len(progress)

VerifiedFor(r) ==
    {k \in 1..Len(verified) :
         verified[k].name = r.name /\ verified[k].domain = r.domain}

IsCandidateOf(mail, r) ==
    LET candidates == generateEmailCandidates(r.name, r.domain)
    IN  \E c \in 1..Len(candidates) : candidates[c] = mail

\* The last two calls of the current entry: the probe and then the validator
\* accepted the address
AcceptedByBoth(mail) ==
    /\ Len(log) >= 2
    /\ log[Len(log) - 1] = Logged("smtp", mail, TRUE, TRUE)
    /\ log[Len(log)].op = "nb"
    /\ log[Len(log)].arg = mail
    /\ log[Len(log)].success

\* C20: in every record pushed by this run found is true exactly when email
\* is not null and exactly when the run has verified a record of the same
\* name and domain, which then has the same email; that email is a candidate
\* generated for the record's own entry, and for the entry just recorded it
\* is the address the probe and then the validator accepted.
C20_ProgressRecordConsistent ==
    /\ \A j \in WrittenThisRun :
           LET r == progress[j]
           IN  /\ r.found <=> r.email # JsNull
               /\ r.found <=> VerifiedFor(r) # {}
               /\ \A k \in VerifiedFor(r) : verified[k].email = r.email
               /\ r.found => IsCandidateOf(r.email, r)
    /\ (Recorded /\ WrittenThisRun # {}) =>
           LET r == progress[Len(progress)]
           IN  /\ r.name = cur.fullName
               /\ r.domain = cur.domain
               /\ r.found = cur.found
               /\ r.found => AcceptedByBoth(r.email)

\* One run has recorded an entry as found and, after it, another as not
\* found
C20_Witness ==
    /\ pc = "loop"
    /\ \E i \in WrittenThisRun, j \in WrittenThisRun :
           /\ i < j
           /\ progress[i].found
           /\ ~progress[j].found

-----------------------------------------------------------------------------
(* The catch-all flag (specification Spec) *)

Outcome(calls, found, mail) == [calls |-> calls, found |-> found, email |-> mail]

Called(op, e) == [op |-> op, arg |-> e]

\* Lines 166-182 as a function: the candidate loop run from the locals c,
\* with the probe accepting the addresses of smtpOk and the validator those
\* of nbOk; gives the calls made, found, and the email of the record pushed
\* to verified
RECURSIVE CandidateLoop(_, _, _, _)
CandidateLoop(c, smtpOk, nbOk, calls) ==
    IF c.candidates = <<>> THEN Outcome(calls, FALSE, JsNull)
    ELSE LET e == c.candidates[c.cidx]
             probed == Append(calls, Called("smtp", e))
             validated == Append(probed, Called("nb", e))
             smtp == AfterSmtp(c, e \in smtpOk)
         IN  IF smtp.pc = "nb"
             THEN IF e \in nbOk THEN Outcome(validated, TRUE, e)
                  ELSE IF NextCandidate(c).pc = "cand"
                  THEN CandidateLoop(NextCandidate(c).c, smtpOk, nbOk, validated)
                  ELSE Outcome(validated, FALSE, JsNull)
             ELSE IF smtp.pc = "cand"
             THEN CandidateLoop(smtp.c, smtpOk, nbOk, probed)
             ELSE Outcome(probed, FALSE, JsNull)

\* The answers the current entry's calls got
AcceptedBy(op) == {log[k].arg : k \in {j \in 1..Len(log) : log[j].op = op /\ log[j].success}}

\* The candidate loop of the current entry is over
LoopOver == pc = "append" \/ Recorded

\* What the current entry's candidate loop did
ActualOutcome ==
    LET calls == Calls({"smtp", "nb"})
    IN  Outcome([k \in 1..Len(calls) |-> Called(calls[k].op, calls[k].arg)],
                cur.found, FoundEmail(verified, cur.found))

\* The same entry with the other value of the catch-all flag and the same
\* answers
TwinOutcome ==
    CandidateLoop([cur EXCEPT !.catchAll = ~cur.catchAll, !.cidx = 1, !.found = FALSE],
                  AcceptedBy("smtp"), AcceptedBy("nb"), <<>>)

\* C14: the catch-all flag is advisory: an entry run with the other value of
\* the flag and the same answers of the probe and the validator probes the
\* same candidates in the same order, makes the same validator calls,
\* verifies the same email and records the same found and email.
C14_CatchAllIsAdvisory ==
    LoopOver =>
        /\ TwinOutcome = ActualOutcome
        /\ (Recorded /\ WrittenThisRun # {}) =>
               /\ progress[Len(progress)].found = TwinOutcome.found
               /\ progress[Len(progress)].email = TwinOutcome.email

\* A catch-all domain whose entry was found after a candidate was rejected
C14_Witness ==
    /\ pc = "loop"
    /\ cur.catchAll
    /\ cur.found
    /\ Len(ActualOutcome.calls) >= 3
    /\ progress[Len(progress)].email = ActualOutcome.email

=============================================================================
